---- MODULE Spec2Model ----
(***************************************************************************)
(* The voting core of alx-polly: the service layer of                      *)
(* src/lib/supabase-mock.ts (pollService, voteService) running against the *)
(* relational store declared in the setup script of src/unnamed/part_004   *)
(* (tables polls, poll_options and votes, their keys, cascades and the     *)
(* on_vote_change trigger).  Every request the service sends to the store  *)
(* is one atomic step; a service call that awaits several requests is a    *)
(* sequence of such steps, and other calls may run between them.           *)
(***************************************************************************)
EXTENDS Integers, FiniteSets, Sequences, Bags, TLC

\* ------------------------------------------------------------------ bounds
NCalls == 2            \* vote calls that race each other in SpecRace
MaxVotes == 1          \* a vote call may begin while the store holds at most this many rows
MaxLoads == 2          \* loadPolls calls of one hook that can be in flight at once
MaxMemVotes == 2       \* vote calls made on the in-memory usePolls hook
MaxCount == 23         \* highest vote count of an option shown in the results view

\* ------------------------------------------------------------------ universe
Users == {"u1", "u2"}
\* The users who create polls (any user may try to update or delete one).
Creators == {"u1"}
\* The users whose vote calls race in SpecRace.
Voters == Users \cup {"u3"}
\* The ids the store generates for polls, in the order it hands them out.
PollIds == {1, 2}
MaxPolls == Cardinality(PollIds)
\* Number of option texts a createPoll call passes: two options are enough
\* for a change of choice.
OptionsPerPoll == {2}
MaxOptions == 2 * MaxPolls
\* Id 0 is an id the store never generated: it names no row, ever.
Calls == 1..NCalls
\* Spec and SpecSeq run one vote call at a time against the other operations;
\* the races between vote calls are SpecRace's.
Handlers == {1}

VARIABLES
    polls,          \* table public.polls: a set of rows
    poll_options,   \* table public.poll_options: a set of rows
    votes,          \* table public.votes: a bag of rows (the row id left out)
    nextPoll,       \* number of poll ids generated so far
    nextOption,     \* number of option ids generated so far
    call,           \* the vote calls: where each stands and what it has read
    creating,       \* the createPoll call between its two inserts
    pre,            \* the store as it was when the latest sequential call began
    last,           \* the latest removeVote, updatePoll or deletePoll call that
                    \* returned with nothing run since: arguments and outcome
    hook,           \* state of the store-backed usePolls hook (use-polls-new.tsx)
    loads,          \* the loadPolls calls of that hook: position and data read
    mem,            \* polls state of the in-memory usePolls hook (use-polls.tsx)
    card,           \* a PollCard: its props, its selectedOption, what it emitted
    view            \* a results view: the counts shown and what is rendered

\* The store with the service calls running on it, and the client side.
db == <<polls, poll_options, votes, nextPoll, nextOption, call, creating, pre, last>>
ui == <<hook, loads, mem, card, view>>

vars == <<polls, poll_options, votes, nextPoll, nextOption, call, creating, pre,
          last, hook, loads, mem, card, view>>

\* ------------------------------------------------------------------ tables
PollRow(id, owner, multi) ==
    [id |-> id, created_by |-> owner, is_active |-> TRUE,
     allow_multiple_choices |-> multi, total_votes |-> 0]

OptionRow(id, pollId) == [id |-> id, poll_id |-> pollId, votes |-> 0]

VoteRow(pollId, optionId, userId) ==
    [poll_id |-> pollId, option_id |-> optionId, user_id |-> userId]

PollExists(P, id) == \E p \in P : p.id = id
OptionExists(O, id) == \E o \in O : o.id = id
ThePoll(P, id) == CHOOSE p \in P : p.id = id
TheOption(O, id) == CHOOSE o \in O : o.id = id

\* The rows of bag V whose value is in S (a WHERE clause), as a bag.
RowsWhere(V, S) == [r \in DOMAIN V \cap S |-> V[r]]

\* Number of rows of bag V whose value is in S.
CountWhere(V, S) == BagCardinality(RowsWhere(V, S))

\* The row values of V that name poll p, option o, user u.
OfPoll(V, p) == {r \in DOMAIN V : r.poll_id = p}
OfOption(V, o) == {r \in DOMAIN V : r.option_id = o}
OfPollUser(V, p, u) == {r \in DOMAIN V : r.poll_id = p /\ r.user_id = u}

\* ------------------------------------------------------------------ store
\* Trigger on_vote_change, FOR EACH ROW of a statement that inserted (d = 1)
\* or deleted (d = -1) the bag `rows` of votes: votes = votes + d on the
\* option named by the row, total_votes = total_votes + d on its poll.  An
\* UPDATE ... WHERE id = x touches nothing when no row has that id.
\* Mutant: the trigger forgets the UPDATE of public.polls.
update_poll_vote_counts_OptionOnly(P, O, rows, d) ==
    [polls |-> P,
     poll_options |->
        {[o EXCEPT !.votes =
              @ + d * CountWhere(rows, OfOption(rows, o.id))] : o \in O}]

\* Mutant: the trigger is declared AFTER INSERT only; a DELETE counts nothing.
update_poll_vote_counts_InsertOnly(P, O, rows, d) ==
    IF d < 0 THEN [polls |-> P, poll_options |-> O]
    ELSE [polls |->
             {[p EXCEPT !.total_votes =
                   @ + d * CountWhere(rows, OfPoll(rows, p.id))] : p \in P},
          poll_options |->
             {[o EXCEPT !.votes =
                   @ + d * CountWhere(rows, OfOption(rows, o.id))] : o \in O}]

update_poll_vote_counts(P, O, rows, d) ==
    [polls |->
        {[p EXCEPT !.total_votes =
              @ + d * CountWhere(rows, OfPoll(rows, p.id))] : p \in P},
     poll_options |->
        {[o EXCEPT !.votes =
              @ + d * CountWhere(rows, OfOption(rows, o.id))] : o \in O}]

\* Constraints of public.votes checked on INSERT: UNIQUE(poll_id, user_id,
\* option_id), then the foreign keys to polls and poll_options.
\* Mutant: the table is declared without its UNIQUE constraint.
VoteInsertError_NoUnique(P, O, V, row) ==
    IF ~PollExists(P, row.poll_id) \/ ~OptionExists(O, row.option_id)
    THEN "foreign_key_violation"
    ELSE "none"

VoteInsertError(P, O, V, row) ==
    IF BagIn(row, V) THEN "unique_violation"
    ELSE IF ~PollExists(P, row.poll_id) \/ ~OptionExists(O, row.option_id)
         THEN "foreign_key_violation"
         ELSE "none"

\* INSERT INTO votes: the store after the statement (unchanged on an error).
InsertVote(P, O, V, row) ==
    LET err == VoteInsertError(P, O, V, row) IN
    IF err # "none"
    THEN [error |-> err, polls |-> P, poll_options |-> O, votes |-> V]
    ELSE LET one == SetToBag({row})
             t == update_poll_vote_counts(P, O, one, 1) IN
         [error |-> "none", polls |-> t.polls,
          poll_options |-> t.poll_options, votes |-> V (+) one]

\* DELETE FROM votes WHERE the row is in S: zero rows matched is not an error.
DeleteVotes(P, O, V, S) ==
    LET gone == RowsWhere(V, S)
        t == update_poll_vote_counts(P, O, gone, -1) IN
    [polls |-> t.polls, poll_options |-> t.poll_options,
     votes |-> RowsWhere(V, DOMAIN V \ S)]

\* DELETE FROM polls WHERE id = pollId AND created_by = userId, with the
\* ON DELETE CASCADE of poll_options.poll_id, votes.poll_id, votes.option_id;
\* the trigger runs for every vote row the cascade removes.
\* Mutant: the DELETE is not restricted to the caller's own polls.
DeletePollCascade_AnyUser(P, O, V, pollId, userId) ==
    LET goneP == {p \in P : p.id = pollId}
        goneIds == {p.id : p \in goneP}
        goneO == {o \in O : o.poll_id \in goneIds}
        goneOIds == {o.id : o \in goneO}
        dead == {r \in DOMAIN V :
                     r.poll_id \in goneIds \/ r.option_id \in goneOIds}
    IN DeleteVotes(P \ goneP, O \ goneO, V, dead)

DeletePollCascade(P, O, V, pollId, userId) ==
    LET goneP == {p \in P : p.id = pollId /\ p.created_by = userId}
        goneIds == {p.id : p \in goneP}
        goneO == {o \in O : o.poll_id \in goneIds}
        goneOIds == {o.id : o \in goneO}
        dead == {r \in DOMAIN V :
                     r.poll_id \in goneIds \/ r.option_id \in goneOIds}
    IN DeleteVotes(P \ goneP, O \ goneO, V, dead)

\* ------------------------------------------------------------------ calls
IdleCall ==
    [pc |-> "idle", pollId |-> 0, optionId |-> 0, userId |-> "u1",
     existingVotes |-> 0, poll |-> "null", error |-> "none", alone |-> TRUE,
     storeError |-> "none"]

Snapshot(of) ==
    [of |-> of, polls |-> polls, poll_options |-> poll_options, votes |-> votes]

NoSnapshot == [of |-> 0, polls |-> {}, poll_options |-> {}, votes |-> EmptyBag]

\* No removeVote, updatePoll or deletePoll call has just returned.
NoCall == [op |-> "none", pollId |-> 0, optionId |-> 0, userId |-> "u1",
           error |-> "none"]

\* The client side before any component is mounted.
LoadIds == 1..MaxLoads
IdleLoad == [pc |-> "idle", data |-> {}]
NoHook == [user |-> "null", polls |-> {}, isLoading |-> TRUE, error |-> "none",
           thrown |-> "none", seen |-> {}]
NoMem == [polls |-> {}, isLoading |-> TRUE, voteCalls |-> 0]
NoCard == [pollId |-> "", options |-> {}, isActive |-> TRUE, userVote |-> "",
           isLoading |-> FALSE, hasOnVote |-> FALSE, selectedOption |-> "",
           onVote |-> <<>>]
NoView == [votes |-> <<>>, totalVotes |-> 0, rendered |-> FALSE,
           percentage |-> <<>>, leading |-> <<>>]
NoClient ==
    /\ hook = NoHook
    /\ loads = [l \in LoadIds |-> IdleLoad]
    /\ mem = NoMem
    /\ card = NoCard
    /\ view = NoView

InFlight(c) == call[c].pc \notin {"idle", "done"}

TypeOK ==
    /\ nextPoll \in 0..MaxPolls
    /\ \A p \in polls : p.total_votes \in Int /\ p.created_by \in Users
    /\ nextOption \in 0..MaxOptions
    /\ \A p \in polls : p.id \in 1..nextPoll
    /\ \A o \in poll_options : o.id \in 1..nextOption
    /\ IsABag(votes)
    /\ \A c \in Calls : call[c].pc \in
           {"idle", "getUserVote", "selectPoll", "delete", "insert", "done"}

\* voteService.vote(pollId, optionId, userId) is called: it runs up to its
\* first await, the getUserVote request.  `alone` records (for the claims
\* only) that no other vote call of the same user was running at that moment.
VoteBegin(c, p, o, u) ==
    /\ call' = [call EXCEPT ![c] =
                    [pc |-> "getUserVote", pollId |-> p, optionId |-> o,
                     userId |-> u, existingVotes |-> 0, poll |-> "null",
                     error |-> "none",
                     alone |-> \A d \in Calls \ {c} :
                                  InFlight(d) => call[d].userId # u,
                     storeError |-> "none"]]
    /\ UNCHANGED <<polls, poll_options, votes, nextPoll, nextOption, creating>>

\* getUserVote: SELECT * FROM votes WHERE poll_id AND user_id.
getUserVote(V, pollId, userId) == RowsWhere(V, OfPollUser(V, pollId, userId))

VoteGetUserVote(c) ==
    /\ call[c].pc = "getUserVote"
    /\ call' = [call EXCEPT ![c].pc = "selectPoll",
                            ![c].existingVotes =
                                BagCardinality(getUserVote(votes, call[c].pollId,
                                                           call[c].userId))]
    /\ UNCHANGED <<polls, poll_options, votes, nextPoll, nextOption, creating, pre, last, ui>>

\* SELECT allow_multiple_choices FROM polls WHERE id = pollId, .single():
\* data is null when no row matches (the error is not looked at).
SelectPoll(P, pollId) ==
    IF PollExists(P, pollId)
    THEN IF ThePoll(P, pollId).allow_multiple_choices THEN "multiple" ELSE "single"
    ELSE "null"

\* Mutant: the existing votes are removed only when there are several.
MustDelete_OffByOne(poll, existingVotes) == poll # "multiple" /\ existingVotes > 1

\* Mutant: the poll's allow_multiple_choices is not looked at.
MustDelete_IgnoresPoll(poll, existingVotes) == existingVotes > 0

\* if (!poll?.allow_multiple_choices && existingVotes.length > 0)
MustDelete(poll, existingVotes) == poll # "multiple" /\ existingVotes > 0

VoteSelectPoll(c) ==
    /\ call[c].pc = "selectPoll"
    /\ LET poll == SelectPoll(polls, call[c].pollId) IN
       call' = [call EXCEPT ![c].poll = poll,
                            ![c].pc = IF MustDelete(poll, call[c].existingVotes)
                                      THEN "delete" ELSE "insert"]
    /\ UNCHANGED <<polls, poll_options, votes, nextPoll, nextOption, creating, pre, last, ui>>

\* DELETE FROM votes WHERE poll_id = pollId AND user_id = userId.
VoteDelete(c) ==
    /\ call[c].pc = "delete"
    /\ LET s == DeleteVotes(polls, poll_options, votes,
                            OfPollUser(votes, call[c].pollId, call[c].userId)) IN
       /\ polls' = s.polls
       /\ poll_options' = s.poll_options
       /\ votes' = s.votes
    /\ call' = [call EXCEPT ![c].pc = "insert"]
    /\ UNCHANGED <<nextPoll, nextOption, creating, pre, last, ui>>

\* INSERT INTO votes (poll_id, option_id, user_id); if (error) throw error.
VoteInsert(c) ==
    /\ call[c].pc = "insert"
    /\ LET s == InsertVote(polls, poll_options, votes,
                           VoteRow(call[c].pollId, call[c].optionId,
                                   call[c].userId)) IN
       /\ polls' = s.polls
       /\ poll_options' = s.poll_options
       /\ votes' = s.votes
       \* the call returns: its locals are gone, its outcome is what remains
       /\ call' = [call EXCEPT ![c].pc = "done", ![c].error = s.error,
                               ![c].existingVotes = 0, ![c].poll = "null"]
    /\ UNCHANGED <<nextPoll, nextOption, creating, pre, last, ui>>

\* voteService.removeVote: DELETE FROM votes WHERE poll_id AND option_id AND
\* user_id; the store reports no error when no row matches.
RemoveVote(p, o, u) ==
    /\ LET s == DeleteVotes(polls, poll_options, votes, {VoteRow(p, o, u)}) IN
       /\ polls' = s.polls
       /\ poll_options' = s.poll_options
       /\ votes' = s.votes
    /\ UNCHANGED <<nextPoll, nextOption, call, creating, pre, last, ui>>

\* ------------------------------------------------------------------ polls
IdleCreate == [pc |-> "idle", pollId |-> 0, userId |-> "u1", options |-> 0]

\* pollService.createPoll, first request: INSERT INTO polls (title,
\* description, created_by, allow_multiple_choices); the id is generated,
\* is_active defaults to TRUE and total_votes to 0.
CreatePollInsertPoll(u, multi, n) ==
    /\ creating.pc = "idle"
    /\ nextPoll < MaxPolls
    /\ nextOption + n <= MaxOptions
    /\ nextPoll' = nextPoll + 1
    /\ polls' = polls \cup {PollRow(nextPoll + 1, u, multi)}
    /\ creating' = [pc |-> "insertOptions", pollId |-> nextPoll + 1,
                    userId |-> u, options |-> n]
    /\ UNCHANGED <<poll_options, votes, nextOption, call, pre, last, ui>>

\* pollService.createPoll, second request: INSERT INTO poll_options one row
\* per option text, votes defaulting to 0.  The statement is rejected when
\* the poll row is gone (foreign key, and the creator-only policy).
CreatePollInsertOptions ==
    /\ creating.pc = "insertOptions"
    /\ IF PollExists(polls, creating.pollId)
       THEN /\ poll_options' = poll_options \cup
                   {OptionRow(nextOption + i, creating.pollId) :
                        i \in 1..creating.options}
            /\ nextOption' = nextOption + creating.options
       ELSE UNCHANGED <<poll_options, nextOption>>
    /\ creating' = IdleCreate
    /\ UNCHANGED <<polls, votes, nextPoll, call, pre, last, ui>>

\* The row after UPDATE ... SET {...updates}: every column updates names
\* takes the value given, the others keep theirs.
ApplyUpdates(row, updates) ==
    [f \in DOMAIN row |-> IF f \in DOMAIN updates THEN updates[f] ELSE row[f]]

\* pollService.updatePoll: UPDATE polls SET {...updates, updated_at}
\* WHERE id = pollId AND created_by = userId.
UpdatePollRows(P, pollId, updates, userId) ==
    {IF p.id = pollId /\ p.created_by = userId
     THEN ApplyUpdates(p, updates) ELSE p : p \in P}

\* The updates a caller may pass are a poll's columns (Partial<Poll>).
\* StatusUpdates close and reopen a poll; Updates also write other columns.
StatusUpdates == {[is_active |-> FALSE], [is_active |-> TRUE]}

Updates ==
    StatusUpdates \cup
    {[allow_multiple_choices |-> FALSE], [allow_multiple_choices |-> TRUE],
     [total_votes |-> 0], [created_by |-> "u2"]}

UpdatePoll(p, updates, u) ==
    /\ polls' = UpdatePollRows(polls, p, updates, u)
    /\ UNCHANGED <<poll_options, votes, nextPoll, nextOption, call, creating, pre, last, ui>>

\* pollService.deletePoll.
DeletePoll(p, u) ==
    /\ LET s == DeletePollCascade(polls, poll_options, votes, p, u) IN
       /\ polls' = s.polls
       /\ poll_options' = s.poll_options
       /\ votes' = s.votes
    /\ UNCHANGED <<nextPoll, nextOption, call, creating, pre, last, ui>>

\* ------------------------------------------------------------------ Spec
\* Any number of vote calls, by any users with any arguments, run at once
\* with the owner's and other callers' operations on the polls.
VoteStart(c) ==
    /\ call[c].pc \in {"idle", "done"}
    /\ BagCardinality(votes) <= MaxVotes
    /\ \E p \in 1..nextPoll, o \in 1..nextOption, u \in Users : VoteBegin(c, p, o, u)
    /\ UNCHANGED <<pre, last, ui>>

Init ==
    /\ polls = {}
    /\ poll_options = {}
    /\ votes = EmptyBag
    /\ nextPoll = 0
    /\ nextOption = 0
    /\ call = [c \in Calls |-> IdleCall]
    /\ creating = IdleCreate
    /\ pre = NoSnapshot
    /\ last = NoCall
    /\ NoClient

Next ==
    \/ \E c \in Handlers : VoteStart(c)
    \/ \E c \in Handlers : VoteGetUserVote(c)
    \/ \E c \in Handlers : VoteSelectPoll(c)
    \/ \E c \in Handlers : VoteDelete(c)
    \/ \E c \in Handlers : VoteInsert(c)
    \/ \E p \in 1..nextPoll, o \in 1..nextOption, u \in Users : RemoveVote(p, o, u)
    \/ \E u \in Creators, multi \in BOOLEAN, n \in OptionsPerPoll :
           CreatePollInsertPoll(u, multi, n)
    \/ CreatePollInsertOptions
    \/ \E p \in 1..nextPoll, updates \in StatusUpdates, u \in Users :
           UpdatePoll(p, updates, u)
    \/ \E p \in 1..nextPoll, u \in Users : DeletePoll(p, u)

Spec == Init /\ [][Next]_vars

\* ------------------------------------------------------------------ SpecRace
\* One poll with two options and no votes, as createPoll leaves it; NCalls
\* vote calls for its options, each started once, run in any interleaving.
InitOnePoll ==
    /\ \E multi \in BOOLEAN : polls = {PollRow(1, "u1", multi)}
    /\ poll_options = {OptionRow(1, 1), OptionRow(2, 1)}
    /\ votes = EmptyBag
    /\ nextPoll = 1
    /\ nextOption = 2
    /\ call = [c \in Calls |-> IdleCall]
    /\ creating = IdleCreate
    /\ pre = NoSnapshot
    /\ last = NoCall
    /\ NoClient

VoteStartOnce(c) ==
    /\ call[c].pc = "idle"
    /\ \E o \in 1..nextOption, u \in Voters : VoteBegin(c, 1, o, u)
    /\ UNCHANGED <<pre, last, ui>>

NextRace ==
    \/ \E c \in Calls : VoteStartOnce(c)
    \/ \E c \in Calls : VoteGetUserVote(c)
    \/ \E c \in Calls : VoteSelectPoll(c)
    \/ \E c \in Calls : VoteDelete(c)
    \/ \E c \in Calls : VoteInsert(c)

SpecRace == InitOnePoll /\ [][NextRace]_vars

\* ------------------------------------------------------------------ SpecSeq
\* The same poll; the operations run one at a time, none between the steps
\* of another, and `pre` keeps the store as the running vote call found it.
AllIdle == \A c \in Calls : call[c].pc = "idle"

VoteStartSeq(c) ==
    /\ call[c].pc \in {"idle", "done"}
    /\ \A d \in Calls : ~InFlight(d)
    /\ \E p \in 0..nextPoll, o \in 0..nextOption, u \in Users : VoteBegin(c, p, o, u)
    /\ pre' = Snapshot(c)
    /\ UNCHANGED <<last, ui>>

\* The caller has taken the call's outcome.
VoteReturn(c) ==
    /\ call[c].pc = "done"
    /\ call' = [call EXCEPT ![c] = IdleCall]
    /\ pre' = NoSnapshot
    /\ UNCHANGED <<polls, poll_options, votes, nextPoll, nextOption, creating, last, ui>>

RemoveVoteSeq(p, o, u) == AllIdle /\ RemoveVote(p, o, u)

UpdatePollSeq(p, updates, u) == AllIdle /\ UpdatePoll(p, updates, u)

NextSeq ==
    \/ \E c \in Handlers : VoteStartSeq(c)
    \/ \E c \in Handlers : VoteGetUserVote(c)
    \/ \E c \in Handlers : VoteSelectPoll(c)
    \/ \E c \in Handlers : VoteDelete(c)
    \/ \E c \in Handlers : VoteInsert(c)
    \/ \E c \in Handlers : VoteReturn(c)
    \/ \E p \in 1..nextPoll, o \in 1..nextOption, u \in Users : RemoveVoteSeq(p, o, u)
    \/ \E p \in 1..nextPoll, updates \in Updates, u \in Users :
           UpdatePollSeq(p, updates, u)

SpecSeq == InitOnePoll /\ [][NextSeq]_vars

\* ------------------------------------------------------------------ SpecOps
\* The same poll; vote, removeVote, updatePoll and deletePoll calls run one
\* at a time.  `pre` keeps the store as the latest call found it and `last`
\* what removeVote, updatePoll or deletePoll was called with and returned.
VoteStartOps(c) ==
    /\ call[c].pc \in {"idle", "done"}
    /\ \A d \in Calls : ~InFlight(d)
    /\ BagCardinality(votes) <= MaxVotes
    /\ \E p \in 1..nextPoll, o \in 1..nextOption, u \in Users : VoteBegin(c, p, o, u)
    /\ pre' = Snapshot(c)
    /\ last' = NoCall
    /\ UNCHANGED ui

\* voteService.removeVote: the store reports no error when the DELETE matches
\* no row, so the call always returns normally.
RemoveVoteOps(p, o, u) ==
    /\ AllIdle
    /\ LET s == DeleteVotes(polls, poll_options, votes, {VoteRow(p, o, u)}) IN
       /\ polls' = s.polls
       /\ poll_options' = s.poll_options
       /\ votes' = s.votes
    /\ pre' = Snapshot(0)
    /\ last' = [op |-> "removeVote", pollId |-> p, optionId |-> o,
                userId |-> u, error |-> "none"]
    /\ UNCHANGED <<nextPoll, nextOption, call, creating, ui>>

\* .select().single() after the UPDATE: an error when no row was updated.
UpdatePollError(P, pollId, userId) ==
    IF \E p \in P : p.id = pollId /\ p.created_by = userId
    THEN "none" ELSE "no_rows"

\* pollService.updatePoll; if (error) throw error.
UpdatePollOps(p, updates, u) ==
    /\ AllIdle
    /\ polls' = UpdatePollRows(polls, p, updates, u)
    /\ pre' = Snapshot(0)
    /\ last' = [op |-> "updatePoll", pollId |-> p, optionId |-> 0,
                userId |-> u, error |-> UpdatePollError(polls, p, u)]
    /\ UNCHANGED <<poll_options, votes, nextPoll, nextOption, call, creating, ui>>

\* pollService.deletePoll: no error when the DELETE matches no row.
DeletePollOps(p, u) ==
    /\ AllIdle
    /\ LET s == DeletePollCascade(polls, poll_options, votes, p, u) IN
       /\ polls' = s.polls
       /\ poll_options' = s.poll_options
       /\ votes' = s.votes
    /\ pre' = Snapshot(0)
    /\ last' = [op |-> "deletePoll", pollId |-> p, optionId |-> 0,
                userId |-> u, error |-> "none"]
    /\ UNCHANGED <<nextPoll, nextOption, call, creating, ui>>

NextOps ==
    \/ \E c \in Handlers : VoteStartOps(c)
    \/ \E c \in Handlers : VoteGetUserVote(c)
    \/ \E c \in Handlers : VoteSelectPoll(c)
    \/ \E c \in Handlers : VoteDelete(c)
    \/ \E c \in Handlers : VoteInsert(c)
    \/ \E c \in Handlers : VoteReturn(c)
    \/ \E p \in 1..nextPoll, o \in 1..nextOption, u \in Users : RemoveVoteOps(p, o, u)
    \/ \E p \in 1..nextPoll, updates \in Updates, u \in Users :
           UpdatePollOps(p, updates, u)
    \/ \E p \in 1..nextPoll, u \in Users : DeletePollOps(p, u)

SpecOps == InitOnePoll /\ [][NextOps]_vars

\* ------------------------------------------------------------------ SpecMix
\* The same poll; NCalls vote calls, each started once, and any number of
\* removeVote calls run in any interleaving.
RemoveVoteMix(o, u) == RemoveVote(1, o, u)

NextMix ==
    \/ \E c \in Calls : VoteStartOnce(c)
    \/ \E c \in Calls : VoteGetUserVote(c)
    \/ \E c \in Calls : VoteSelectPoll(c)
    \/ \E c \in Calls : VoteDelete(c)
    \/ \E c \in Calls : VoteInsert(c)
    \/ \E o \in 1..nextOption, u \in Voters : RemoveVoteMix(o, u)

SpecMix == InitOnePoll /\ [][NextMix]_vars

\* ------------------------------------------------------------------ SpecFault
\* The same poll; one vote call at a time, and any request it sends may come
\* back with a store error (the store unreachable) instead of being executed.
\* const existingVotes = await this.getUserVote(...): if (error) throw error.
VoteGetUserVoteFails(c) ==
    /\ call[c].pc = "getUserVote"
    /\ call' = [call EXCEPT ![c].pc = "done", ![c].error = "store_unavailable",
                            ![c].storeError = "getUserVote"]
    /\ UNCHANGED <<polls, poll_options, votes, nextPoll, nextOption, creating, pre, last, ui>>

\* const { data: poll } = await ...: the error is not read, poll is null.
VoteSelectPollFails(c) ==
    /\ call[c].pc = "selectPoll"
    /\ call' = [call EXCEPT ![c].poll = "null",
                            ![c].pc = IF MustDelete("null", call[c].existingVotes)
                                      THEN "delete" ELSE "insert",
                            ![c].storeError = "selectPoll"]
    /\ UNCHANGED <<polls, poll_options, votes, nextPoll, nextOption, creating, pre, last, ui>>

\* await supabase.from('votes').delete()...: the result is not read.
VoteDeleteFails(c) ==
    /\ call[c].pc = "delete"
    /\ call' = [call EXCEPT ![c].pc = "insert", ![c].storeError = "delete"]
    /\ UNCHANGED <<polls, poll_options, votes, nextPoll, nextOption, creating, pre, last, ui>>

\* const { data, error } = await ...insert(...): if (error) throw error.
VoteInsertFails(c) ==
    /\ call[c].pc = "insert"
    /\ call' = [call EXCEPT ![c].pc = "done", ![c].error = "store_unavailable",
                            ![c].storeError = "insert",
                            ![c].existingVotes = 0, ![c].poll = "null"]
    /\ UNCHANGED <<polls, poll_options, votes, nextPoll, nextOption, creating, pre, last, ui>>

NextFault ==
    \/ \E c \in Handlers : VoteStartSeq(c)
    \/ \E c \in Handlers : VoteGetUserVote(c)
    \/ \E c \in Handlers : VoteGetUserVoteFails(c)
    \/ \E c \in Handlers : VoteSelectPoll(c)
    \/ \E c \in Handlers : VoteSelectPollFails(c)
    \/ \E c \in Handlers : VoteDelete(c)
    \/ \E c \in Handlers : VoteDeleteFails(c)
    \/ \E c \in Handlers : VoteInsert(c)
    \/ \E c \in Handlers : VoteInsertFails(c)
    \/ \E c \in Handlers : VoteReturn(c)

SpecFault == InitOnePoll /\ [][NextFault]_vars

\* ------------------------------------------------------------------ numbers
\* JavaScript numbers are IEEE 754 doubles: a significand of 53 bits and an
\* exponent.  A positive double is kept here as [h, m, l, e], its significand
\* cut into the top 13 bits h (2^12 <= h < 2^13) and two limbs m, l of 20
\* bits each; its value is (h * 2^40 + m * 2^20 + l) * 2^e.
Limb == 2^20
TopMin == 2^12
TopMax == 2^13

\* Round to nearest, ties to even: the significand h, m, l followed by a
\* guard bit and by further bits that are not all 0 when sticky.
RoundToDouble(h, m, l, e, guard, sticky) ==
    LET up == guard = 1 /\ (sticky \/ l % 2 = 1)
        l1 == IF up THEN l + 1 ELSE l
        m1 == m + l1 \div Limb
        h1 == h + m1 \div Limb
    IN IF h1 = TopMax
       THEN [h |-> TopMin, m |-> 0, l |-> 0, e |-> e + 1]
       ELSE [h |-> h1, m |-> m1 % Limb, l |-> l1 % Limb, e |-> e]

\* n / d scaled by a power of two into [1, 2): n / d * 2^e is the quotient.
RECURSIVE Normalize(_, _)
Normalize(n, d) ==
    IF n >= 2 * d THEN LET r == Normalize(n, 2 * d) IN [r EXCEPT !.e = @ + 1]
    ELSE IF n < d THEN LET r == Normalize(2 * n, d) IN [r EXCEPT !.e = @ - 1]
         ELSE [n |-> n, d |-> d, e |-> 0]

\* a / b on doubles, for integers a, b > 0: long division to 53 bits, a guard
\* bit and the remainder.
Divide(a, b) ==
    LET s == Normalize(a, b)
        h == (s.n * TopMin) \div s.d
        r1 == (s.n * TopMin) % s.d
        m == (r1 * Limb) \div s.d
        r2 == (r1 * Limb) % s.d
        l == (r2 * Limb) \div s.d
        r3 == (r2 * Limb) % s.d
        guard == (2 * r3) \div s.d
        r4 == (2 * r3) % s.d
    IN RoundToDouble(h, m, l, s.e - 52, guard, r4 # 0)

\* Number of bits by which x exceeds 13 bits.
RECURSIVE ExtraBits(_)
ExtraBits(x) == IF x < TopMax THEN 0 ELSE 1 + ExtraBits(x \div 2)

\* x * k on doubles, for an integer k with 1 < k < 2^7: the exact product,
\* then its lowest bits rounded away.
Times(x, k) ==
    LET pl == x.l * k
        pm == x.m * k + pl \div Limb
        ph == x.h * k + pm \div Limb
        l0 == pl % Limb
        m0 == pm % Limb
        sh == ExtraBits(ph)
        cut == 2^sh
        up == Limb \div cut
        l == l0 \div cut + (m0 % cut) * up
        m == m0 \div cut + (ph % cut) * up
        h == ph \div cut
        guard == IF sh = 0 THEN 0 ELSE (l0 \div (cut \div 2)) % 2
        sticky == sh > 0 /\ l0 % (cut \div 2) # 0
    IN RoundToDouble(h, m, l, x.e + sh, guard, sticky)

\* Math.round(x) for a double 0 < x < 2^13: the integer part, plus 1 when the
\* fraction is at least one half.  Below the binary point lie the two low
\* limbs and f bits of h.
MathRound(x) ==
    LET f == (0 - x.e) - 40
        whole == x.h \div 2^f
        half == IF f = 0 THEN x.m \div (Limb \div 2) ELSE (x.h \div 2^(f - 1)) % 2
    IN whole + half

\* ------------------------------------------------------------------ SpecView
\* getVotePercentage of PollCard and PollDetails.
getVotePercentage(votes_, totalVotes) ==
    IF totalVotes = 0 THEN 0
    ELSE IF votes_ = 0 THEN 0
         ELSE MathRound(Times(Divide(votes_, totalVotes), 100))

\* poll.options.sort((a, b) => b.votes - a.votes): the options' positions in
\* descending order of votes, equal counts keeping their order.
RECURSIVE InsertByVotes(_, _, _)
InsertByVotes(i, order, v) ==
    IF order = <<>> THEN <<i>>
    ELSE IF v[Head(order)] >= v[i]
         THEN <<Head(order)>> \o InsertByVotes(i, Tail(order), v)
         ELSE <<i>> \o order

RECURSIVE SortByVotes(_, _)
SortByVotes(n, v) ==
    IF n = 0 THEN <<>> ELSE InsertByVotes(n, SortByVotes(n - 1, v), v)

\* const isWinning = index === 0 && option.votes > 0, and the Leading badge
\* is shown when isWinning && poll.totalVotes > 0.
isWinning(index, optionVotes) == index = 1 /\ optionVotes > 0

LeadingBadge(i, v, totalVotes) ==
    LET order == SortByVotes(Len(v), v)
        index == CHOOSE k \in 1..Len(order) : order[k] = i
    IN isWinning(index, v[i]) /\ totalVotes > 0

\* A poll of two options with any counts reaches the view; totalVotes is the
\* sum of the counts or more.
InitView ==
    /\ polls = {}
    /\ poll_options = {}
    /\ votes = EmptyBag
    /\ nextPoll = 0
    /\ nextOption = 0
    /\ call = [c \in Calls |-> IdleCall]
    /\ creating = IdleCreate
    /\ pre = NoSnapshot
    /\ last = NoCall
    /\ hook = NoHook
    /\ loads = [l \in LoadIds |-> IdleLoad]
    /\ mem = NoMem
    /\ card = NoCard
    /\ \E a, b \in 0..MaxCount, extra \in 0..1 :
           view = [NoView EXCEPT !.votes = <<a, b>>, !.totalVotes = a + b + extra]

\* The component renders: a percentage and a Leading flag for every option.
RenderResults ==
    /\ ~view.rendered
    /\ view' = [view EXCEPT
                    !.rendered = TRUE,
                    !.percentage = [i \in 1..Len(view.votes) |->
                                       getVotePercentage(view.votes[i], view.totalVotes)],
                    !.leading = [i \in 1..Len(view.votes) |->
                                    LeadingBadge(i, view.votes, view.totalVotes)]]
    /\ UNCHANGED <<db, hook, loads, mem, card>>

NextView == RenderResults

SpecView == InitView /\ [][NextView]_vars

\* ------------------------------------------------------------------ SpecMem
\* The in-memory usePolls hook of use-polls.tsx.
NoStore ==
    /\ polls = {}
    /\ poll_options = {}
    /\ votes = EmptyBag
    /\ nextPoll = 0
    /\ nextOption = 0
    /\ call = [c \in Calls |-> IdleCall]
    /\ creating = IdleCreate
    /\ pre = NoSnapshot
    /\ last = NoCall

mockPolls ==
    {[id |-> "1", totalVotes |-> 15,
      options |-> {[id |-> "1a", votes |-> 5], [id |-> "1b", votes |-> 3],
                   [id |-> "1c", votes |-> 7]}],
     [id |-> "2", totalVotes |-> 30,
      options |-> {[id |-> "2a", votes |-> 12], [id |-> "2b", votes |-> 8],
                   [id |-> "2c", votes |-> 6], [id |-> "2d", votes |-> 4]}]}

\* The polls createPoll can add, with the ids Math.random gives them.
NewPolls ==
    {[id |-> "n1", totalVotes |-> 0,
      options |-> {[id |-> "n1a", votes |-> 0], [id |-> "n1b", votes |-> 0]}]}

\* The ids a caller may pass to vote: those of the polls and options there
\* can be, and one that names nothing.
MemPollIds == {q.id : q \in mockPolls \cup NewPolls} \cup {"zz"}
MemOptionIds ==
    UNION {{o.id : o \in q.options} : q \in mockPolls \cup NewPolls} \cup {"zz"}

InitMem ==
    /\ NoStore
    /\ hook = NoHook
    /\ loads = [l \in LoadIds |-> IdleLoad]
    /\ mem = NoMem
    /\ card = NoCard
    /\ view = NoView

\* The effect's loadPolls after its delay: setPolls(mockPolls).
MemLoaded ==
    /\ mem.isLoading
    /\ mem' = [mem EXCEPT !.polls = mockPolls, !.isLoading = FALSE]
    /\ UNCHANGED <<db, hook, loads, card, view>>

\* createPoll: setPolls(prev => [newPoll, ...prev]).
MemCreatePoll(q) ==
    /\ \A x \in mem.polls : x.id # q.id
    /\ mem' = [mem EXCEPT !.polls = @ \cup {q}]
    /\ UNCHANGED <<db, hook, loads, card, view>>

\* vote: the poll with id pollId gets votes + 1 on its options with id
\* optionId and totalVotes + 1; every other poll is kept.
VotedPoll(poll, optionId) ==
    [poll EXCEPT
        !.options = {IF o.id = optionId THEN [o EXCEPT !.votes = @ + 1] ELSE o :
                         o \in poll.options},
        !.totalVotes = @ + 1]

MemVote(pollId, optionId) ==
    /\ mem.voteCalls < MaxMemVotes
    /\ mem' = [mem EXCEPT
                   !.polls = {IF q.id = pollId THEN VotedPoll(q, optionId) ELSE q :
                                  q \in mem.polls},
                   !.voteCalls = @ + 1]
    /\ UNCHANGED <<db, hook, loads, card, view>>

NextMem ==
    \/ MemLoaded
    \/ \E q \in NewPolls : MemCreatePoll(q)
    \/ \E pollId \in MemPollIds, optionId \in MemOptionIds : MemVote(pollId, optionId)

SpecMem == InitMem /\ [][NextMem]_vars

\* ------------------------------------------------------------------ SpecCard
\* One PollCard, for seed poll "1", under a parent that re-renders it with
\* other props at any time.
CardOptions == {"1a", "1b", "1c"}

\* Mutant: a recorded userVote does not take away the vote controls.
canVote_IgnoresUserVote(isActive, userVote, hasOnVote) == isActive /\ hasOnVote

\* const hasVoted = !!userVote; const canVote = poll.isActive && !hasVoted && onVote.
canVote(isActive, userVote, hasOnVote) == isActive /\ userVote = "" /\ hasOnVote

InitCard ==
    /\ NoStore
    /\ hook = NoHook
    /\ loads = [l \in LoadIds |-> IdleLoad]
    /\ mem = NoMem
    /\ view = NoView
    /\ \E isActive \in BOOLEAN, userVote \in CardOptions \cup {""},
          hasOnVote \in BOOLEAN :
           card = [NoCard EXCEPT !.pollId = "1", !.options = CardOptions,
                                 !.isActive = isActive, !.userVote = userVote,
                                 !.hasOnVote = hasOnVote]

\* The parent renders the card again: the poll was closed or reopened, a vote
\* of the user became known, a vote is being submitted, onVote is passed or not.
CardProps(isActive, userVote, isLoading, hasOnVote) ==
    /\ card' = [card EXCEPT !.isActive = isActive, !.userVote = userVote,
                            !.isLoading = isLoading, !.hasOnVote = hasOnVote]
    /\ UNCHANGED <<db, hook, loads, mem, view>>

\* onClick={() => canVote && setSelectedOption(option.id)} on an option.
CardClickOption(o) ==
    /\ canVote(card.isActive, card.userVote, card.hasOnVote)
    /\ card' = [card EXCEPT !.selectedOption = o]
    /\ UNCHANGED <<db, hook, loads, mem, view>>

\* The Submit Vote button: rendered when canVote, disabled when
\* !selectedOption || isLoading; handleVote calls onVote(poll.id, selectedOption)
\* if (selectedOption && onVote).
CardClickSubmit ==
    /\ canVote(card.isActive, card.userVote, card.hasOnVote)
    /\ ~(card.selectedOption = "" \/ card.isLoading)
    /\ card.selectedOption # "" /\ card.hasOnVote
    /\ card' = [card EXCEPT !.onVote = <<card.pollId, card.selectedOption>>]
    /\ UNCHANGED <<db, hook, loads, mem, view>>

NextCard ==
    \/ \E isActive \in BOOLEAN, userVote \in CardOptions \cup {""},
          isLoading \in BOOLEAN, hasOnVote \in BOOLEAN :
           CardProps(isActive, userVote, isLoading, hasOnVote)
    \/ \E o \in CardOptions : CardClickOption(o)
    \/ CardClickSubmit

SpecCard == InitCard /\ [][NextCard]_vars

\* ------------------------------------------------------------------ SpecHook
\* The store-backed usePolls hook of use-polls-new.tsx, mounted over the one
\* poll: its loadPolls calls, the polls subscription, and its vote.
HookUsers == {"null", "u1"}

LoginRequired == "You must be logged in to vote"

\* pollService.getAllPolls: the active polls, each with its poll_options.
getAllPolls(P, O) ==
    {[poll |-> q, poll_options |-> {o \in O : o.poll_id = q.id}] :
         q \in {x \in P : x.is_active}}

\* Mutant: the hook does not look at the user.
NotLoggedIn_Never(user) == FALSE

\* if (!user)
NotLoggedIn(user) == user = "null"

\* The effect on mount: loadPolls() runs up to its await, and the
\* subscription to the polls table is made.
InitHook ==
    /\ \E multi \in BOOLEAN : polls = {PollRow(1, "u1", multi)}
    /\ poll_options = {OptionRow(1, 1), OptionRow(2, 1)}
    /\ votes = EmptyBag
    /\ nextPoll = 1
    /\ nextOption = 2
    /\ call = [c \in Calls |-> IdleCall]
    /\ creating = IdleCreate
    /\ pre = NoSnapshot
    /\ last = NoCall
    /\ \E u \in HookUsers : hook = [NoHook EXCEPT !.user = u, !.seen = polls]
    /\ loads = [l \in LoadIds |-> IF l = 1 THEN [IdleLoad EXCEPT !.pc = "query"]
                                  ELSE IdleLoad]
    /\ mem = NoMem
    /\ card = NoCard
    /\ view = NoView

\* onAuthStateChange: the user signs in or out.
AuthStateChange(u) ==
    /\ hook.user # u
    /\ hook' = [hook EXCEPT !.user = u]
    /\ UNCHANGED <<db, loads, mem, card, view>>

\* loadPolls() is called: setIsLoading(true); setError(null); and the
\* getAllPolls request is sent.
LoadBegin(l) ==
    /\ loads[l].pc = "idle"
    /\ loads' = [loads EXCEPT ![l] = [pc |-> "query", data |-> {}]]

\* The store executes the getAllPolls request of load l.
LoadQuery(l) ==
    /\ loads[l].pc = "query"
    /\ loads' = [loads EXCEPT ![l] = [pc |-> "response",
                                      data |-> getAllPolls(polls, poll_options)]]
    /\ UNCHANGED <<db, hook, mem, card, view>>

\* The response of load l arrives: setPolls(transformedPolls); finally
\* setIsLoading(false).
LoadFinish(l) ==
    /\ loads[l].pc = "response"
    /\ hook' = [hook EXCEPT !.polls = loads[l].data, !.isLoading = FALSE]
    /\ loads' = [loads EXCEPT ![l] = IdleLoad]
    /\ UNCHANGED <<db, mem, card, view>>

\* The subscription callback: the polls table has changed since the last
\* event delivered, and loadPolls() is called.
OnPollsChange(l) ==
    /\ hook.seen # polls
    /\ LoadBegin(l)
    /\ hook' = [hook EXCEPT !.seen = polls, !.isLoading = TRUE, !.error = "none"]
    /\ UNCHANGED <<db, mem, card, view>>

\* vote(pollId, optionId) of the hook is called: without a user it throws;
\* otherwise setError(null) and voteService.vote(pollId, optionId, user.id)
\* runs up to its first await.
HookVoteCall(c, p, o) ==
    /\ call[c].pc = "idle"
    /\ IF NotLoggedIn(hook.user)
       THEN /\ hook' = [hook EXCEPT !.thrown = LoginRequired]
            /\ UNCHANGED <<db, loads, mem, card, view>>
       ELSE /\ BagCardinality(votes) <= MaxVotes
            /\ VoteBegin(c, p, o, hook.user)
            /\ hook' = [hook EXCEPT !.error = "none", !.thrown = "none"]
            /\ UNCHANGED <<pre, last, loads, mem, card, view>>

\* The cards call vote with the ids of a poll and an option they show.
HookVote(c) ==
    \E p \in 1..nextPoll, o \in 1..nextOption : HookVoteCall(c, p, o)

\* voteService.vote has returned: await loadPolls() is called.
HookVoteReload(c, l) ==
    /\ call[c].pc = "done" /\ call[c].error = "none"
    /\ LoadBegin(l)
    /\ hook' = [hook EXCEPT !.isLoading = TRUE, !.error = "none"]
    /\ call' = [call EXCEPT ![c] = IdleCall]
    /\ UNCHANGED <<polls, poll_options, votes, nextPoll, nextOption, creating,
                   pre, last, mem, card, view>>

\* voteService.vote has thrown: setError(err.message); throw err.
HookVoteError(c) ==
    /\ call[c].pc = "done" /\ call[c].error # "none"
    /\ hook' = [hook EXCEPT !.error = call[c].error, !.thrown = call[c].error]
    /\ call' = [call EXCEPT ![c] = IdleCall]
    /\ UNCHANGED <<polls, poll_options, votes, nextPoll, nextOption, creating,
                   pre, last, loads, mem, card, view>>

NextHook ==
    \/ \E u \in HookUsers : AuthStateChange(u)
    \/ \E l \in LoadIds : LoadQuery(l)
    \/ \E l \in LoadIds : LoadFinish(l)
    \/ \E l \in LoadIds : OnPollsChange(l)
    \/ \E c \in Handlers : HookVote(c)
    \/ \E c \in Handlers : VoteGetUserVote(c)
    \/ \E c \in Handlers : VoteSelectPoll(c)
    \/ \E c \in Handlers : VoteDelete(c)
    \/ \E c \in Handlers : VoteInsert(c)
    \/ \E c \in Handlers, l \in LoadIds : HookVoteReload(c, l)
    \/ \E c \in Handlers : HookVoteError(c)

SpecHook == InitHook /\ [][NextHook]_vars

\* ------------------------------------------------------------------ claims
OptionsOf(O, pollId) == {o \in O : o.poll_id = pollId}

RECURSIVE SumVotes(_)
SumVotes(S) ==
    IF S = {} THEN 0
    ELSE LET o == CHOOSE x \in S : TRUE IN o.votes + SumVotes(S \ {o})

\* Live vote rows of user u on poll p.
VotesOf(V, p, u) == CountWhere(V, OfPollUser(V, p, u))

\* C1: in every reachable state each poll's total_votes equals the sum of the
\* votes counters of the options that belong to that poll.
C1_TotalIsSumOfOptions ==
    \A p \in polls : p.total_votes = SumVotes(OptionsOf(poll_options, p.id))

\* C2: in every state a reader can observe, each option's votes equals the
\* number of live vote rows naming that option and each poll's total_votes
\* equals the number of live vote rows naming that poll.
C2_CountersEqualLiveRows ==
    /\ \A o \in poll_options :
           o.votes = CountWhere(votes, OfOption(votes, o.id))
    /\ \A p \in polls :
           p.total_votes = CountWhere(votes, OfPoll(votes, p.id))

\* The vote calls of user u so far were issued one after another.
Sequential(u) ==
    \A c \in Calls : call[c].pc # "idle" /\ call[c].userId = u => call[c].alone

HasReturned(u) == \E c \in Calls : call[c].pc = "done" /\ call[c].userId = u
IsRunning(u) == \E c \in Calls : InFlight(c) /\ call[c].userId = u

\* C3: on a single-choice poll, a voter whose vote calls (for options of the
\* poll) are issued one after another never holds more than one live vote
\* row, and holds exactly one whenever a call of theirs has returned and none
\* is running; every such call succeeds.
C3_OneLiveVotePerVoter ==
    \A u \in Voters :
        (~ThePoll(polls, 1).allow_multiple_choices /\ Sequential(u)) =>
            /\ VotesOf(votes, 1, u) <= 1
            /\ (HasReturned(u) /\ ~IsRunning(u)) =>
                   /\ VotesOf(votes, 1, u) = 1
                   /\ \A c \in Calls :
                          call[c].pc = "done" /\ call[c].userId = u
                              => call[c].error = "none"

\* C3 witness: a voter has changed choice on the single-choice poll in two
\* calls, one after the other, and holds one row.
C3_Witness ==
    /\ ~ThePoll(polls, 1).allow_multiple_choices
    /\ \E c, d \in Calls :
           /\ c # d
           /\ call[c].pc = "done" /\ call[d].pc = "done"
           /\ call[c].userId = call[d].userId
           /\ call[c].optionId # call[d].optionId
           /\ Sequential(call[c].userId)
           /\ VotesOf(votes, 1, call[c].userId) = 1

Started == {c \in Calls : call[c].pc # "idle"}

\* The calls started so far have all returned, were made by distinct voters
\* and name the same option.
DistinctVotersSameOption ==
    /\ Started # {}
    /\ \A c \in Started : call[c].pc = "done"
    /\ \A c, d \in Started :
           /\ call[c].optionId = call[d].optionId
           /\ c # d => call[c].userId # call[d].userId

\* C4: when N distinct voters vote for the same option of a fresh poll at
\* once, in any interleaving all N calls succeed, N vote rows are recorded
\* and the option's votes and the poll's total_votes both equal N.
C4_NoLostUpdate ==
    DistinctVotersSameOption =>
        LET N == Cardinality(Started) IN
        /\ \A c \in Started :
               /\ call[c].error = "none"
               /\ CopiesIn(VoteRow(1, call[c].optionId, call[c].userId), votes) = 1
               /\ TheOption(poll_options, call[c].optionId).votes = N
        /\ BagCardinality(votes) = N
        /\ ThePoll(polls, 1).total_votes = N

\* C4 witness: every call has been made, by distinct voters for one option.
C4_Witness == DistinctVotersSameOption /\ Started = Calls /\ NCalls >= 2

\* C5: when the same voter runs two vote calls at once on a single-choice
\* poll, every interleaving ends with exactly one live vote row for that
\* voter on the poll.
C5_SameVoterRaceConverges ==
    \A u \in Voters :
        (~ThePoll(polls, 1).allow_multiple_choices
         /\ HasReturned(u) /\ ~IsRunning(u))
            => VotesOf(votes, 1, u) = 1

\* C6: while a voter who holds a live vote on a single-choice poll runs one
\* vote call for another option, a reader finds exactly one live vote row of
\* that voter on the poll, at every step of the call.
C6_SwitchIsAtomic ==
    \A c \in Calls :
        (/\ call[c].pc \in {"delete", "insert"}
         /\ call[c].poll = "single"
         /\ call[c].existingVotes = 1
         /\ Sequential(call[c].userId)
         /\ \E d \in Calls :
                /\ call[d].pc = "done" /\ call[d].error = "none"
                /\ call[d].userId = call[c].userId
                /\ call[d].optionId # call[c].optionId)
            => VotesOf(votes, 1, call[c].userId) = 1

\* The call c has returned and nothing has run since it began.
Returned(c) == call[c].pc = "done" /\ pre.of = c

StoreAsBefore ==
    /\ votes = pre.votes
    /\ poll_options = pre.poll_options
    /\ polls = pre.polls

\* The voter's only live vote on poll p, before the call, was on option a.
OnlyVoteWasOn(p, u, a) ==
    getUserVote(pre.votes, p, u) = SetToBag({VoteRow(p, a, u)})

\* C7: on a single-choice poll, when a voter whose live vote is on option A
\* successfully votes for another option B of the poll, A's votes is 1 lower,
\* B's votes is 1 higher, total_votes is the same and the voter's only live
\* vote is on B.
C7_SwitchMovesOneVote ==
    \A c \in Calls :
        LET p == call[c].pollId
            u == call[c].userId
            b == call[c].optionId IN
        \A a \in {o.id : o \in OptionsOf(pre.poll_options, p)} :
            (/\ Returned(c) /\ call[c].error = "none"
             /\ PollExists(pre.polls, p)
             /\ ~ThePoll(pre.polls, p).allow_multiple_choices
             /\ a # b
             /\ b \in {o.id : o \in OptionsOf(pre.poll_options, p)}
             /\ OnlyVoteWasOn(p, u, a))
                =>
            /\ TheOption(poll_options, a).votes = TheOption(pre.poll_options, a).votes - 1
            /\ TheOption(poll_options, b).votes = TheOption(pre.poll_options, b).votes + 1
            /\ ThePoll(polls, p).total_votes = ThePoll(pre.polls, p).total_votes
            /\ getUserVote(votes, p, u) = SetToBag({VoteRow(p, b, u)})

\* C7 witness: such a change of choice has returned successfully.
C7_Witness ==
    \E c \in Calls :
        /\ Returned(c) /\ call[c].error = "none"
        /\ PollExists(pre.polls, call[c].pollId)
        /\ ~ThePoll(pre.polls, call[c].pollId).allow_multiple_choices
        /\ \E a \in {o.id : o \in OptionsOf(pre.poll_options, call[c].pollId)} :
               /\ a # call[c].optionId
               /\ OnlyVoteWasOn(call[c].pollId, call[c].userId, a)
        /\ call[c].optionId \in
               {o.id : o \in OptionsOf(pre.poll_options, call[c].pollId)}

\* C8: every vote call on a poll whose is_active is false fails, and leaves
\* every vote row and every counter as it was.
C8_InactivePollRejectsVote ==
    \A c \in Calls :
        (/\ Returned(c)
         /\ PollExists(pre.polls, call[c].pollId)
         /\ ~ThePoll(pre.polls, call[c].pollId).is_active)
            => call[c].error # "none" /\ StoreAsBefore

\* The call c named a multiple-choice poll and an option on which its voter
\* held a live vote when the call began.
DuplicateOnMultipleChoice(c) ==
    /\ PollExists(pre.polls, call[c].pollId)
    /\ ThePoll(pre.polls, call[c].pollId).allow_multiple_choices
    /\ BagIn(VoteRow(call[c].pollId, call[c].optionId, call[c].userId), pre.votes)

\* C9: on a multiple-choice poll, a vote call for an option on which the
\* voter already holds a live vote fails with the store's uniqueness error
\* (DuplicateVote), creates no second row and changes no counter.
C9_DuplicateVoteRejected ==
    \A c \in Calls :
        (Returned(c) /\ DuplicateOnMultipleChoice(c))
            => call[c].error = "unique_violation" /\ StoreAsBefore

\* C9 witness: such a duplicate vote has been made and has returned.
C9_Witness ==
    \E c \in Calls : Returned(c) /\ DuplicateOnMultipleChoice(c)

\* C10: after every vote call that returns an error, the vote rows and all
\* option and poll counters are those from before the call.
C10_FailedVoteChangesNothing ==
    \A c \in Calls :
        (Returned(c) /\ call[c].error # "none") => StoreAsBefore

\* The ids of the options of poll p in table O.
OptionIdsOf(O, p) == {o.id : o \in OptionsOf(O, p)}

\* C11: a vote call naming a poll that does not exist, or an option that does
\* not belong to the named poll, fails and leaves the store as it was: nothing
\* is deleted or inserted before the check.
C11_ValidatedBeforeMutation ==
    \A c \in Calls :
        (/\ Returned(c)
         /\ \/ ~PollExists(pre.polls, call[c].pollId)
            \/ call[c].optionId \notin OptionIdsOf(pre.poll_options, call[c].pollId))
            => call[c].error # "none" /\ StoreAsBefore

\* C12: in every reachable state every live vote row names an existing option
\* whose poll is the poll the row names.
C12_VoteOptionBelongsToPoll ==
    \A r \in DOMAIN votes :
        \E o \in poll_options : o.id = r.option_id /\ o.poll_id = r.poll_id

\* The store a vote call leaves when it runs to its end on store (P, O, V)
\* with nothing between its steps.
VoteCompleted(P, O, V, p, o, u) ==
    LET existingVotes == BagCardinality(getUserVote(V, p, u))
        kept == [polls |-> P, poll_options |-> O, votes |-> V]
        d == IF MustDelete(SelectPoll(P, p), existingVotes)
             THEN DeleteVotes(P, O, V, OfPollUser(V, p, u))
             ELSE kept
        s == InsertVote(d.polls, d.poll_options, d.votes, VoteRow(p, o, u))
    IN [polls |-> s.polls, poll_options |-> s.poll_options, votes |-> s.votes]

\* C13: a vote call abandoned after any of its store steps leaves the store
\* either as it was before the call or as a completed call leaves it.
C13_AbandonedVoteIsAllOrNothing ==
    \A c \in Calls :
        (InFlight(c) /\ pre.of = c) =>
            \/ StoreAsBefore
            \/ [polls |-> polls, poll_options |-> poll_options, votes |-> votes]
                   = VoteCompleted(pre.polls, pre.poll_options, pre.votes,
                                   call[c].pollId, call[c].optionId, call[c].userId)

\* C14: in every reachable state no two live vote rows share the same
\* (poll_id, option_id, user_id), under any interleaving of vote and
\* removeVote calls.
C14_VoteTripleUnique == \A r \in DOMAIN votes : CopiesIn(r, votes) = 1

\* C14 witness: a vote call for a triple that was live has returned, rejected,
\* and the triple is live once.
C14_Witness ==
    \E c \in Calls :
        /\ call[c].pc = "done" /\ call[c].error = "unique_violation"
        /\ CopiesIn(VoteRow(call[c].pollId, call[c].optionId, call[c].userId),
                    votes) = 1

\* The call c, on a multiple-choice poll, named an option of the poll on which
\* its voter held no live vote, and succeeded.
NewChoiceOnMultipleChoice(c) ==
    /\ Returned(c) /\ call[c].error = "none"
    /\ PollExists(pre.polls, call[c].pollId)
    /\ ThePoll(pre.polls, call[c].pollId).allow_multiple_choices
    /\ ~BagIn(VoteRow(call[c].pollId, call[c].optionId, call[c].userId), pre.votes)

\* Table O with the votes of option o changed by d; table P with the
\* total_votes of poll p changed by d.
OptionsWith(O, o, d) == {IF x.id = o THEN [x EXCEPT !.votes = @ + d] ELSE x : x \in O}
PollsWith(P, p, d) == {IF x.id = p THEN [x EXCEPT !.total_votes = @ + d] ELSE x : x \in P}

\* C15: on a multiple-choice poll a successful vote call for an option the
\* voter has not voted for adds exactly one vote row and removes none, and
\* the option's votes and the poll's total_votes each rise by exactly 1.
C15_MultipleChoiceAddsOneVote ==
    \A c \in Calls :
        NewChoiceOnMultipleChoice(c) =>
            /\ votes = pre.votes (+)
                   SetToBag({VoteRow(call[c].pollId, call[c].optionId, call[c].userId)})
            /\ poll_options = OptionsWith(pre.poll_options, call[c].optionId, 1)
            /\ polls = PollsWith(pre.polls, call[c].pollId, 1)

\* C15 witness: such a call has returned for a voter who held a vote on
\* another option of the poll, and holds both now.
C15_Witness ==
    \E c \in Calls :
        /\ NewChoiceOnMultipleChoice(c)
        /\ BagCardinality(getUserVote(pre.votes, call[c].pollId, call[c].userId)) = 1
        /\ BagCardinality(getUserVote(votes, call[c].pollId, call[c].userId)) = 2

\* The call that has just returned is op, with nothing run since.
Just(op) == last.op = op /\ pre.of = 0

\* The vote row the latest removeVote call named.
LastRow == VoteRow(last.pollId, last.optionId, last.userId)

\* C16: removeVote called when no live vote row exists for its (poll, option,
\* voter) fails (VoteNotFound) and changes nothing in the store.
C16_RemoveMissingVoteFails ==
    (Just("removeVote") /\ ~BagIn(LastRow, pre.votes))
        => last.error # "none" /\ StoreAsBefore

\* C17: a successful removeVote of a live vote removes exactly that one vote
\* row, lowers that option's votes and the poll's total_votes by exactly 1
\* and leaves every other vote row and every other counter unchanged.
C17_RemoveVoteTakesOneVote ==
    (Just("removeVote") /\ last.error = "none" /\ BagIn(LastRow, pre.votes))
        =>
    /\ votes (+) SetToBag({LastRow}) = pre.votes
    /\ ~BagIn(LastRow, votes)
    /\ poll_options = OptionsWith(pre.poll_options, last.optionId, -1)
    /\ polls = PollsWith(pre.polls, last.pollId, -1)

\* C17 witness: a live vote has been removed while its voter keeps a vote on
\* another option of the poll.
C17_Witness ==
    /\ Just("removeVote") /\ last.error = "none" /\ BagIn(LastRow, pre.votes)
    /\ BagCardinality(getUserVote(votes, last.pollId, last.userId)) = 1

\* C18: once a poll's is_active is false no operation makes it true again.
C18_ClosedStaysClosed ==
    \A p \in pre.polls :
        (last.op # "none" /\ pre.of = 0 /\ ~p.is_active) =>
            \A q \in polls : q.id = p.id => ~q.is_active

\* The latest call was an updatePoll or deletePoll by a user who is not the
\* creator of the poll it named.
ByNonOwner ==
    /\ Just("updatePoll") \/ Just("deletePoll")
    /\ PollExists(pre.polls, last.pollId)
    /\ ThePoll(pre.polls, last.pollId).created_by # last.userId

\* C19: updatePoll and deletePoll called with a userId that is not the poll's
\* created_by leave the poll, its options and its votes unchanged.
C19_OnlyOwnerChangesPoll == ByNonOwner => StoreAsBefore

\* C19 witness: another user's deletePoll has returned on a poll that has a
\* vote.
C19_Witness ==
    /\ ByNonOwner
    /\ last.op = "deletePoll"
    /\ BagCardinality(pre.votes) > 0

\* C20: for every updates argument, updatePoll leaves the poll's total_votes,
\* allow_multiple_choices, created_by and id as they were.
C20_UpdatePollKeepsProtectedColumns ==
    Just("updatePoll") =>
        \A p \in pre.polls :
            \E q \in polls :
                /\ q.id = p.id
                /\ q.total_votes = p.total_votes
                /\ q.allow_multiple_choices = p.allow_multiple_choices
                /\ q.created_by = p.created_by

\* The rows of bag V that do not name poll p; those not of user u on poll p.
NotOfPoll(V, p) == RowsWhere(V, DOMAIN V \ OfPoll(V, p))
NotOfPollUser(V, p, u) == RowsWhere(V, DOMAIN V \ OfPollUser(V, p, u))

\* C21: after the owner's deletePoll(P) no option of P and no vote row with
\* poll_id = P remains, and the vote rows and counters of every other poll
\* and of every other poll's options are the same as before the call.
C21_DeletePollCascadesOnlyItsOwn ==
    [][\A p \in PollIds, u \in Users :
          (DeletePoll(p, u) /\ \E q \in polls : q.id = p /\ q.created_by = u)
              =>
          /\ OptionsOf(poll_options', p) = {}
          /\ OfPoll(votes', p) = {}
          /\ NotOfPoll(votes', p) = NotOfPoll(votes, p)
          /\ {q \in polls' : q.id # p} = {q \in polls : q.id # p}
          /\ {o \in poll_options' : o.poll_id # p}
                 = {o \in poll_options : o.poll_id # p}]_vars

\* C22: in every observable state every poll in the store has at least 2
\* options.
C22_PollHasTwoOptions ==
    \A p \in polls : Cardinality(OptionsOf(poll_options, p.id)) >= 2

\* C24: when the poll lookup or the delete of the voter's existing votes comes
\* back with a store error, the vote call returns an error to its caller.
C24_NoSilentStepFailure ==
    \A c \in Calls :
        (call[c].pc = "done" /\ call[c].storeError # "none")
            => call[c].error # "none"

\* C27: a store step of a vote call by voter V on poll P leaves every vote row
\* of another voter or on another poll, every other poll and every option of
\* another poll as it was.
C27_VoteTouchesOnlyItsPollAndVoter ==
    [][\A c \in Calls :
          (VoteDelete(c) \/ VoteInsert(c)) =>
              /\ NotOfPollUser(votes', call[c].pollId, call[c].userId)
                     = NotOfPollUser(votes, call[c].pollId, call[c].userId)
              /\ {q \in polls' : q.id # call[c].pollId}
                     = {q \in polls : q.id # call[c].pollId}
              /\ {o \in poll_options' : o.poll_id # call[c].pollId}
                     = {o \in poll_options : o.poll_id # call[c].pollId}]_vars

\* round(votes / totalVotes * 100) on integers: halves round up.
RoundedPercent(v, t) == IF t = 0 THEN 0 ELSE (200 * v + t) \div (2 * t)

\* C25: for every option the reported percentage equals
\* round(option.votes / poll.total_votes * 100) when total_votes > 0 and 0
\* when total_votes = 0.
C25_PercentageIsRounded ==
    view.rendered =>
        \A i \in 1..Len(view.votes) :
            view.percentage[i] = RoundedPercent(view.votes[i], view.totalVotes)

\* C26: an option is marked Leading only if its count is greater than 0 and
\* strictly greater than the count of every other option; with a tie for the
\* highest count, or total_votes = 0, no option is marked Leading.
C26_LeadingIsStrictlyHighest ==
    view.rendered =>
        \A i \in 1..Len(view.votes) :
            view.leading[i] =>
                /\ view.votes[i] > 0
                /\ view.totalVotes > 0
                /\ \A j \in 1..Len(view.votes) :
                       j # i => view.votes[i] > view.votes[j]

\* C29: in the in-memory usePolls hook, after any sequence of vote and
\* createPoll calls on the seed polls, every poll's totalVotes equals the sum
\* of its options' votes.
C29_MemTotalIsSumOfOptions ==
    \A q \in mem.polls : q.totalVotes = SumVotes(q.options)

\* C30: PollCard calls onVote(poll.id, optionId) only when the poll is
\* active, the card has no recorded userVote, an option has been selected
\* and the selected option is one of this poll's own options.
C30_CardEmitsOnlyValidVote ==
    [][(CardClickSubmit \/ card'.onVote # card.onVote) =>
          /\ card.isActive
          /\ card.userVote = ""
          /\ card.selectedOption # ""
          /\ card.selectedOption \in card.options
          /\ card'.onVote = <<card.pollId, card.selectedOption>>]_vars

\* C30 witness: the card has emitted a vote request.
C30_Witness == card.onVote # <<>> /\ card.onVote[2] \in card.options

\* C23: a vote request made through the hook while no user is authenticated
\* (user is null) is rejected with an error before voteService.vote is
\* called: no request is sent and the store is unchanged.
C23_UnauthenticatedVoteRejected ==
    [][\A c \in Handlers, p \in 1..nextPoll, o \in 1..nextOption :
           (hook.user = "null" /\ HookVoteCall(c, p, o)) =>
               (UNCHANGED db /\ hook'.thrown = LoginRequired)]_vars

\* C23 witness: a vote was asked for without a user and was rejected.
C23_Witness == hook.user = "null" /\ hook.thrown = LoginRequired

\* No load in flight, no vote call running, no change of the polls table
\* that the subscription has not delivered.
Quiescent ==
    /\ \A l \in LoadIds : loads[l].pc = "idle"
    /\ \A c \in Calls : call[c].pc = "idle"
    /\ hook.seen = polls

\* C28: once all in-flight loads of the hook have completed and the store no
\* longer changes, the hook's polls equal the store's latest state and
\* isLoading is false, in whatever order the responses arrived.
C28_LoadsConvergeToStore ==
    Quiescent => (hook.polls = getAllPolls(polls, poll_options) /\ ~hook.isLoading)

====
